---------------------------- MODULE Spec2Model ----------------------------
(***************************************************************************)
(* A model of package set (github.com/soniakeys/set): sets as slices of    *)
(* Element interfaces.                                                     *)
(*                                                                         *)
(* Go slices are modelled as they are built: a slice is a header (array,   *)
(* len, cap) over a backing array kept in a heap, so that two headers over *)
(* one array see each other's writes, and the built-in append writes in    *)
(* place when the capacity allows and allocates otherwise.  Every slice of *)
(* the package starts at offset 0 of its array (the code only reslices     *)
(* with s[:last] and s[:last:last]), so a header needs no offset.          *)
(***************************************************************************)
EXTENDS Integers, Sequences, FiniteSets, TLC

VARIABLES
    heap,    \* the backing arrays: heap[a] is array a, a sequence of cells
    s,       \* the set variable the operations are applied to
    t,       \* a second set variable (an operand, or a copy of header s)
    r,       \* the set returned by the last read-only operation
    last,    \* the last operation and what it returned
    popped,  \* the elements returned by the Pop calls so far
    orig     \* the element sequences of s and t when the run started

vars == <<heap, s, t, r, last, popped, orig>>

(***************************************************************************)
(* Bounds of the model.                                                    *)
(***************************************************************************)
MaxInt == 3       \* intEle values are 1..MaxInt
MaxArgs == 2      \* most arguments of a variadic call (AddV, NewSetM)
MaxLits == 2      \* longest literal set used as an argument
MaxPop == 3       \* largest set the Pop runs start from
MaxAlg == 3       \* largest receiver of the set algebra
MaxPow == 6       \* largest set PowerSet is applied to
StackLimit == 3   \* call depth at which the goroutine stack overflows
MaxRO == 2        \* largest operand of a read-only call, and its intEle values
MaxMut == 1       \* mutations applied to a returned set
MaxIter == 3      \* elements of the set Iter is called on

(***************************************************************************)
(* Element values (the dynamic values an Element interface can hold).      *)
(***************************************************************************)
\* The nil interface, also the zero value of a fresh array slot.
Nil == [k |-> "nil"]

\* intEle(n) of the tests.
IntEle(n) == [k |-> "int", v |-> n]

\* A slice header of dynamic type k ("Set" or "SetM"); a = 0: no array.
Slice(k, a, len, cap) == [k |-> k, a |-> a, len |-> len, cap |-> cap]

\* The nil slice and the empty literal Set{} / SetM{}: len 0, cap 0.
Empty(k) == [k |-> k, a |-> 0, len |-> 0, cap |-> 0]

\* OrderedPair{a, b}.
OrderedPair(a, b) == [k |-> "pair", a |-> a, b |-> b]

IsSlice(c) == c.k \in {"Set", "SetM"}

\* The elements of slice sl, read through its header.
Elems(h, sl) == IF sl.len = 0 THEN <<>> ELSE SubSeq(h[sl.a], 1, sl.len)

(***************************************************************************)
(* Allocation and the built-in append and copy.                            *)
(***************************************************************************)
\* A new array, at the end of the heap (collection renumbers the arrays).
Alloc(h, arr) == [h |-> Append(h, arr), a |-> Len(h) + 1]

\* n zeroed slots.
Zeroed(n) == [i \in 1..n |-> Nil] \o <<>>

\* make(SetM, n): a zeroed array of exactly n slots.
Make(h, k, n) ==
    IF n = 0 THEN [h |-> h, v |-> Empty(k)]
    ELSE LET al == Alloc(h, Zeroed(n))
         IN  [h |-> al.h, v |-> Slice(k, al.a, n, n)]

\* The allocator's size classes, in 16-byte interface values.
RoundUpCap(n) ==
    IF n <= 16 THEN n
    ELSE IF n <= 32 THEN 2 * ((n + 1) \div 2)
    ELSE IF n <= 48 THEN 4 * ((n + 3) \div 4)
    ELSE IF n <= 96 THEN 8 * ((n + 7) \div 8)
    ELSE 16 * ((n + 15) \div 16)

\* The capacity append grows to (gc runtime: double while that is enough
\* and the slice is small, else what is needed; then the size class).
GrowCap(old, needed) ==
    RoundUpCap(IF needed > 2 * old THEN needed ELSE 2 * old)

\* append(sl, es...): in place when cap allows, else a grown copy.
AppendSeq(h, sl, es) ==
    LET n == sl.len + Len(es)
    IN  IF Len(es) = 0 THEN [h |-> h, v |-> sl]
        ELSE IF n <= sl.cap
        THEN [h |-> [h EXCEPT ![sl.a] =
                        SubSeq(@, 1, sl.len) \o es \o SubSeq(@, n + 1, Len(@))],
              v |-> [sl EXCEPT !.len = n]]
        ELSE LET nc == GrowCap(sl.cap, n)
                 al == Alloc(h, Elems(h, sl) \o es \o Zeroed(nc - n))
             IN  [h |-> al.h, v |-> Slice(sl.k, al.a, n, nc)]

\* append(sl, e).
AppendOne(h, sl, e) == AppendSeq(h, sl, <<e>>)

\* A composite literal Set{es...}: an array of exactly Len(es) slots.
Literal(h, k, es) ==
    IF Len(es) = 0 THEN [h |-> h, v |-> Empty(k)]
    ELSE LET al == Alloc(h, es)
         IN  [h |-> al.h, v |-> Slice(k, al.a, Len(es), Len(es))]

(***************************************************************************)
(* Equal: the Element interface.  An outcome is "true", "false" or         *)
(* "panic" (a run-time panic, which no code of the package recovers).      *)
(***************************************************************************)
RECURSIVE EqualO(_, _, _), HasFromO(_, _, _, _), IfaceEq(_, _, _),
          SetEqualFrom(_, _, _, _), ContainsFromO(_, _, _, _)

\* Go's == on two interface values: identical dynamic types and equal
\* values; a panic when the common dynamic type is not comparable (a slice).
\* Struct values are compared field by field in source order, stopping at
\* the first difference.
IfaceEq(h, x, y) ==
    IF x.k # y.k THEN "false"
    ELSE IF x.k = "nil" THEN "true"
    ELSE IF x.k = "int" THEN (IF x.v = y.v THEN "true" ELSE "false")
    ELSE IF IsSlice(x) THEN "panic"
    ELSE LET fa == IfaceEq(h, x.a, y.a)
         IN  IF fa # "true" THEN fa ELSE IfaceEq(h, x.b, y.b)

\* intEle.Equal
IntEqual(i, e) == IF e.k = "int" /\ i.v = e.v THEN "true" ELSE "false"

\* OrderedPair.Equal: r, ok := q.(OrderedPair); return ok && p == r
PairEqual(h, p, q) == IF q.k # "pair" THEN "false" ELSE IfaceEq(h, p, q)

\* The scan of HasElement from index i: e.Equal(ex) for each ex of sl.
HasFromO(h, sl, e, i) ==
    IF i > sl.len THEN "false"
    ELSE LET o == EqualO(h, e, h[sl.a][i])
         IN  IF o = "false" THEN HasFromO(h, sl, e, i + 1) ELSE o

\* Set.HasElement and SetM.HasElement
HasElementO(h, sl, e) == HasFromO(h, sl, e, 1)

\* The loop of Set.Equal: every se of s is found in t.
SetEqualFrom(h, sl, tl, i) ==
    IF i > sl.len THEN "true"
    ELSE LET o == HasElementO(h, tl, h[sl.a][i])
         IN  IF o = "true" THEN SetEqualFrom(h, sl, tl, i + 1) ELSE o

\* Set.Equal
SetEqual(h, sl, e) ==
    IF e.k # "Set" THEN "false"
    ELSE IF sl.len # e.len THEN "false"
    ELSE SetEqualFrom(h, sl, e, 1)

\* SetM.Contains(es...) from index i of es.
ContainsFromO(h, sl, es, i) ==
    IF i > Len(es) THEN "true"
    ELSE LET o == HasElementO(h, sl, es[i])
         IN  IF o = "true" THEN ContainsFromO(h, sl, es, i + 1) ELSE o

\* SetM.Contains
ContainsO(h, sl, es) == ContainsFromO(h, sl, es, 1)

SetMEqualNoLen(h, sl, e) ==
    IF e.k # "SetM" THEN "false" ELSE ContainsO(h, sl, Elems(h, e))

\* SetM.Equal
SetMEqual(h, sl, e) ==
    IF e.k # "SetM" THEN "false"
    ELSE IF sl.len # e.len THEN "false"
    ELSE ContainsO(h, sl, Elems(h, e))

\* x.Equal(y): dynamic dispatch on the receiver; a nil receiver panics.
EqualO(h, x, y) ==
    CASE x.k = "int" -> IntEqual(x, y)
      [] x.k = "Set" -> SetEqual(h, x, y)
      [] x.k = "SetM" -> SetMEqual(h, x, y)
      [] x.k = "pair" -> PairEqual(h, x, y)
      [] OTHER -> "panic"

\* The boolean results, where no element is an OrderedPair or nil.
Equal(h, x, y) == EqualO(h, x, y) = "true"
HasElement(h, sl, e) == HasElementO(h, sl, e) = "true"
Contains(h, sl, es) == ContainsO(h, sl, es) = "true"

(***************************************************************************)
(* Type Set (set.go).                                                      *)
(***************************************************************************)
\* AddElement without its membership test.
AddElementBlind(h, p, e) == AppendOne(h, p, e)

\* Set.AddElement: if !p.HasElement(e) { *p = append(*p, e) }
AddElement(h, p, e) ==
    IF HasElement(h, p, e) THEN [h |-> h, v |-> p] ELSE AppendOne(h, p, e)

\* s[i], s[last] = s[last], s[i]
Swap(h, sl, i, j) ==
    [h EXCEPT ![sl.a] = [@ EXCEPT ![i] = h[sl.a][j], ![j] = h[sl.a][i]]]

\* The index of the first element ex of sl with e.Equal(ex), from i; 0: none.
RECURSIVE IndexFrom(_, _, _, _)
IndexFrom(h, sl, e, i) ==
    IF i > sl.len THEN 0
    ELSE IF Equal(h, e, h[sl.a][i]) THEN i
    ELSE IndexFrom(h, sl, e, i + 1)

\* Set.RemoveElement and SetM.Remove: swap the element found with the last
\* one and cut the slice, s[:last]; ok reports whether it was found.
Remove(h, p, e) ==
    LET i == IndexFrom(h, p, e, 1)
    IN  IF i = 0 THEN [h |-> h, v |-> p, ok |-> FALSE]
        ELSE [h |-> Swap(h, p, i, p.len),
              v |-> [p EXCEPT !.len = p.len - 1],
              ok |-> TRUE]

\* Set.RemoveElement
RemoveElement(h, p, e) == Remove(h, p, e)

\* The inner loop of PowerSet: u = append(u, append(er.(Set), es)) for each
\* er of r (r's header is read once, its elements as the loop reaches them).
\* u holds one element per er already visited, so the next er is at index
\* u.len + 1.
RECURSIVE PowerInner(_, _, _, _)
PowerInner(h, rl, es, u) ==
    IF u.len >= rl.len THEN [h |-> h, v |-> u]
    ELSE LET sub == AppendOne(h, h[rl.a][u.len + 1], es)
             nu == AppendOne(sub.h, u, sub.v)
         IN  PowerInner(nu.h, rl, es, nu.v)

\* The outer loop of PowerSet over the elements of s: r = append(r, u...)
RECURSIVE PowerOuter(_, _, _, _)
PowerOuter(h, sl, rl, i) ==
    IF i > sl.len THEN [h |-> h, v |-> rl]
    ELSE LET in == PowerInner(h, rl, h[sl.a][i], Empty(sl.k))
             nr == AppendSeq(in.h, rl, Elems(in.h, in.v))
         IN  PowerOuter(nr.h, sl, nr.v, i + 1)

\* Set.PowerSet and SetM.PowerSet (the same code on either type):
\* r := Set{Set{}}, then the loops.
PowerSet(h, sl) ==
    LET r0 == Literal(h, sl.k, <<Empty(sl.k)>>)
    IN  PowerOuter(r0.h, sl, r0.v, 1)

(***************************************************************************)
(* The validators of Equal (set.go).                                       *)
(***************************************************************************)
\* Reflexive(e): e.Equal(e)
Reflexive(h, e) == EqualO(h, e, e)

\* Symetric(a, b): a.Equal(b) == b.Equal(a)
Symetric(h, a, b) ==
    LET x == EqualO(h, a, b)
        y == EqualO(h, b, a)
    IN  IF x = "panic" \/ y = "panic" THEN "panic"
        ELSE IF x = y THEN "true" ELSE "false"

\* Transitive(a, b, c)
Transitive(h, a, b, c) ==
    LET x == EqualO(h, a, b)
        y == EqualO(h, b, c)
    IN  IF x = "panic" THEN "panic"
        ELSE IF x = "false" THEN "true"
        ELSE IF y = "panic" THEN "panic"
        ELSE IF y = "false" THEN "true"
        ELSE EqualO(h, a, c)

(***************************************************************************)
(* Type SetM (setm.go): the mutating methods.                              *)
(***************************************************************************)
\* SetM.Add: always a new backing array, of exactly len+1 slots.
Add(h, p, e) ==
    IF HasElement(h, p, e) THEN [h |-> h, v |-> p, ok |-> FALSE]
    ELSE LET al == Alloc(h, Append(Elems(h, p), e))
         IN  [h |-> al.h,
              v |-> Slice(p.k, al.a, p.len + 1, p.len + 1),
              ok |-> TRUE]

\* Copy returning its receiver: the same header over the same array.
CopyShared(h, sl) == [h |-> h, v |-> sl]

\* SetM.Copy: append(SetM{}, s...)
Copy(h, sl) == AppendSeq(h, Empty(sl.k), Elems(h, sl))

\* The first loop of AddV: the index of the first argument not in r, or
\* Len(es) + 1.
RECURSIVE AddVFirst(_, _, _, _)
AddVFirst(h, p, es, i) ==
    IF i > Len(es) THEN i
    ELSE IF ~HasElement(h, p, es[i]) THEN i
    ELSE AddVFirst(h, p, es, i + 1)

\* The second loop of AddV, on the copy sl: append each later argument
\* that sl does not hold yet.
RECURSIVE AddVRest(_, _, _, _)
AddVRest(h, sl, es, i) ==
    IF i > Len(es) THEN [h |-> h, v |-> sl]
    ELSE IF ~HasElement(h, sl, es[i])
    THEN LET ap == AppendOne(h, sl, es[i])
         IN  AddVRest(ap.h, ap.v, es, i + 1)
    ELSE AddVRest(h, sl, es, i + 1)

\* SetM.AddV
AddV(h, p, es) ==
    LET i == AddVFirst(h, p, es, 1)
    IN  IF i > Len(es) THEN [h |-> h, v |-> p, ok |-> FALSE]
        ELSE LET c == Copy(h, p)
                 a1 == AppendOne(c.h, c.v, es[i])
                 rest == AddVRest(a1.h, a1.v, es, i + 1)
             IN  [h |-> rest.h, v |-> rest.v, ok |-> TRUE]

\* NewSetM(es...): n.Add(e) for each argument, from the nil set.
RECURSIVE NewSetMFrom(_, _, _, _)
NewSetMFrom(h, n, es, i) ==
    IF i > Len(es) THEN [h |-> h, v |-> n]
    ELSE LET ad == Add(h, n, es[i])
         IN  NewSetMFrom(ad.h, ad.v, es, i + 1)

\* NewSetM
NewSetM(h, es) == NewSetMFrom(h, Empty("SetM"), es, 1)

\* SetM.Clear: *p = nil
Clear(h, p) == [h |-> h, v |-> Empty(p.k)]

\* Pop without the copy that closes the gap.
PopNoCopy(h, p, i) ==
    IF p.len = 0 THEN [h |-> h, v |-> p, e |-> Nil, ok |-> FALSE]
    ELSE [h |-> h,
          v |-> Slice(p.k, p.a, p.len - 1, p.len - 1),
          e |-> h[p.a][i],
          ok |-> TRUE]

\* SetM.Pop with rand.Intn(len(s)) = i - 1: copy(s[i:], s[i+1:]) moves the
\* tail one slot down (the last slot keeps its value), then s[:last:last].
Pop(h, p, i) ==
    IF p.len = 0 THEN [h |-> h, v |-> p, e |-> Nil, ok |-> FALSE]
    ELSE [h |-> [h EXCEPT ![p.a] =
                    [j \in 1..Len(@) |->
                        IF j >= i /\ j < p.len THEN @[j + 1] ELSE @[j]]],
          v |-> Slice(p.k, p.a, p.len - 1, p.len - 1),
          e |-> h[p.a][i],
          ok |-> TRUE]

\* The callbacks given to RemoveIf and Filter: e is an intEle in P.
Pred(P, e) == e.k = "int" /\ e.v \in P

\* The loop of RemoveIf on the local header sl.
RECURSIVE RemoveIfFrom(_, _, _, _, _)
RemoveIfFrom(h, sl, P, i, removed) ==
    IF i > sl.len THEN [h |-> h, v |-> sl, ok |-> removed]
    ELSE IF Pred(P, h[sl.a][i])
    THEN RemoveIfFrom(Swap(h, sl, i, sl.len),
                      [sl EXCEPT !.len = sl.len - 1], P, i, TRUE)
    ELSE RemoveIfFrom(h, sl, P, i + 1, removed)

\* SetM.RemoveIf
RemoveIf(h, p, P) == RemoveIfFrom(h, p, P, 1, FALSE)

\* SetM.UnionR: r.Add(e) for each e of t, read as the loop reaches it.
RECURSIVE UnionRFrom(_, _, _, _)
UnionRFrom(h, p, tl, i) ==
    IF i > tl.len THEN [h |-> h, v |-> p]
    ELSE LET ad == Add(h, p, h[tl.a][i])
         IN  UnionRFrom(ad.h, ad.v, tl, i + 1)

\* SetM.UnionR
UnionR(h, p, tl) == UnionRFrom(h, p, tl, 1)

\* SetM.DifferenceR: r.Remove(e) for each e of c, read as the loop reaches
\* it (c may share r's array).
RECURSIVE DifferenceRFrom(_, _, _, _)
DifferenceRFrom(h, p, c, i) ==
    IF i > c.len THEN [h |-> h, v |-> p]
    ELSE LET rm == Remove(h, p, h[c.a][i])
         IN  DifferenceRFrom(rm.h, rm.v, c, i + 1)

\* SetM.DifferenceR
DifferenceR(h, p, c) == DifferenceRFrom(h, p, c, 1)

(***************************************************************************)
(* Type SetM (setm.go): the methods that return a new set.                 *)
(***************************************************************************)
\* SetM.CartesianProduct: p[i] = OrderedPair{es, et}, es outer, et inner.
CartesianProduct(h, sl, tl) ==
    LET mk == Make(h, sl.k, sl.len * tl.len)
    IN  IF sl.len * tl.len = 0 THEN mk
        ELSE [h |-> [mk.h EXCEPT ![mk.v.a] =
                        [i \in 1..(sl.len * tl.len) |->
                            OrderedPair(h[sl.a][((i - 1) \div tl.len) + 1],
                                        h[tl.a][((i - 1) % tl.len) + 1])]],
              v |-> mk.v]

\* The loop of Difference: d = append(d, e) for each e of s not in t.
RECURSIVE DifferenceFrom(_, _, _, _, _)
DifferenceFrom(h, sl, tl, d, i) ==
    IF i > sl.len THEN [h |-> h, v |-> d]
    ELSE IF ~HasElement(h, tl, h[sl.a][i])
    THEN LET ap == AppendOne(h, d, h[sl.a][i])
         IN  DifferenceFrom(ap.h, sl, tl, ap.v, i + 1)
    ELSE DifferenceFrom(h, sl, tl, d, i + 1)

\* SetM.Difference
Difference(h, sl, tl) == DifferenceFrom(h, sl, tl, Empty(sl.k), 1)

\* Whether some set of ts has e (the inner loop of DifferenceV).
InSome(h, ts, e) == \E j \in 1..Len(ts) : HasElement(h, ts[j], e)

\* Whether every set of ts has e (the inner loop of IntersectV).
InAll(h, ts, e) == \A j \in 1..Len(ts) : HasElement(h, ts[j], e)

\* The loop of DifferenceV.
RECURSIVE DifferenceVFrom(_, _, _, _, _)
DifferenceVFrom(h, sl, ts, d, i) ==
    IF i > sl.len THEN [h |-> h, v |-> d]
    ELSE IF ~InSome(h, ts, h[sl.a][i])
    THEN LET ap == AppendOne(h, d, h[sl.a][i])
         IN  DifferenceVFrom(ap.h, sl, ts, ap.v, i + 1)
    ELSE DifferenceVFrom(h, sl, ts, d, i + 1)

\* SetM.DifferenceV
DifferenceV(h, sl, ts) == DifferenceVFrom(h, sl, ts, Empty(sl.k), 1)

\* Difference2 removing only the first element of c.
Difference2First(h, sl, c) ==
    LET d == Copy(h, sl)
    IN  IF c.len = 0 THEN d
        ELSE LET rm == Remove(d.h, d.v, h[c.a][1])
             IN  [h |-> rm.h, v |-> rm.v]

\* SetM.Difference2: d := s.Copy(); d.Remove(e) for each e of c.
Difference2(h, sl, c) ==
    LET d == Copy(h, sl)
    IN  DifferenceR(d.h, d.v, c)

\* The loop of Filter.
RECURSIVE FilterFrom(_, _, _, _, _)
FilterFrom(h, sl, P, res, i) ==
    IF i > sl.len THEN [h |-> h, v |-> res]
    ELSE IF Pred(P, h[sl.a][i])
    THEN LET ap == AppendOne(h, res, h[sl.a][i])
         IN  FilterFrom(ap.h, sl, P, ap.v, i + 1)
    ELSE FilterFrom(h, sl, P, res, i + 1)

\* SetM.Filter
Filter(h, sl, P) == FilterFrom(h, sl, P, Empty(sl.k), 1)

\* SetM.Flatten and its loop: a SetM element is flattened and united into
\* f, any other element is added.
RECURSIVE FlattenFrom(_, _, _, _)
FlattenFrom(h, sl, f, i) ==
    IF i > sl.len THEN [h |-> h, v |-> f]
    ELSE IF h[sl.a][i].k = "SetM"
    THEN LET sub == FlattenFrom(h, h[sl.a][i], Empty("SetM"), 1)
             un == UnionR(sub.h, f, sub.v)
         IN  FlattenFrom(un.h, sl, un.v, i + 1)
    ELSE LET ad == Add(h, f, h[sl.a][i])
         IN  FlattenFrom(ad.h, sl, ad.v, i + 1)

\* SetM.Flatten
Flatten(h, sl) == FlattenFrom(h, sl, Empty("SetM"), 1)

\* The closure r of Flatten2 at call depth d.  Its parameter has no name:
\* the loop ranges over the receiver s, whatever set r was called with.
\* fault: the goroutine's stack overflowed (a fatal error).
RECURSIVE Flatten2R(_, _, _, _, _)
Flatten2R(h, sl, f, i, d) ==
    IF d > StackLimit THEN [h |-> h, v |-> f, fault |-> TRUE]
    ELSE IF i > sl.len THEN [h |-> h, v |-> f, fault |-> FALSE]
    ELSE IF h[sl.a][i].k = "SetM"
    THEN LET sub == Flatten2R(h, sl, f, 1, d + 1)
         IN  IF sub.fault THEN sub
             ELSE Flatten2R(sub.h, sl, sub.v, i + 1, d)
    ELSE LET ad == Add(h, f, h[sl.a][i])
         IN  Flatten2R(ad.h, sl, ad.v, i + 1, d)

\* SetM.Flatten2: r(s)
Flatten2(h, sl) == Flatten2R(h, sl, Empty("SetM"), 1, 1)

\* The loop of Intersect: i = append(i, e) for each e of s in t.
RECURSIVE IntersectFrom(_, _, _, _, _)
IntersectFrom(h, sl, tl, d, i) ==
    IF i > sl.len THEN [h |-> h, v |-> d]
    ELSE IF HasElement(h, tl, h[sl.a][i])
    THEN LET ap == AppendOne(h, d, h[sl.a][i])
         IN  IntersectFrom(ap.h, sl, tl, ap.v, i + 1)
    ELSE IntersectFrom(h, sl, tl, d, i + 1)

\* Intersect with its test negated.
IntersectKeepMissing(h, sl, tl) == DifferenceFrom(h, sl, tl, Empty(sl.k), 1)

\* SetM.Intersect
Intersect(h, sl, tl) == IntersectFrom(h, sl, tl, Empty(sl.k), 1)

\* The loop of IntersectV.
RECURSIVE IntersectVFrom(_, _, _, _, _)
IntersectVFrom(h, sl, ts, res, i) ==
    IF i > sl.len THEN [h |-> h, v |-> res]
    ELSE IF InAll(h, ts, h[sl.a][i])
    THEN LET ap == AppendOne(h, res, h[sl.a][i])
         IN  IntersectVFrom(ap.h, sl, ts, ap.v, i + 1)
    ELSE IntersectVFrom(h, sl, ts, res, i + 1)

\* SetM.IntersectV
IntersectV(h, sl, ts) == IntersectVFrom(h, sl, ts, Empty(sl.k), 1)

\* The loop of Intersect2 over s: i.Remove(e) for each e not in t.
RECURSIVE Intersect2From(_, _, _, _, _)
Intersect2From(h, sl, tl, res, i) ==
    IF i > sl.len THEN [h |-> h, v |-> res]
    ELSE IF ~HasElement(h, tl, h[sl.a][i])
    THEN LET rm == Remove(h, res, h[sl.a][i])
         IN  Intersect2From(rm.h, sl, tl, rm.v, i + 1)
    ELSE Intersect2From(h, sl, tl, res, i + 1)

\* SetM.Intersect2
Intersect2(h, sl, tl) ==
    LET c == Copy(h, sl)
    IN  Intersect2From(c.h, sl, tl, c.v, 1)

\* SetM.IsSubset
IsSubset(h, sl, tl) == \A i \in 1..sl.len : HasElement(h, tl, h[sl.a][i])

\* SetM.IsSuperset
IsSuperset(h, sl, tl) == IsSubset(h, tl, sl)

\* The callbacks given to Map: an intEle n becomes intEle f[n].
MapFn(f, e) == IF e.k = "int" THEN IntEle(f[e.v]) ELSE e

\* The loop of Map: m.Add(f(e))
RECURSIVE MapFrom(_, _, _, _, _)
MapFrom(h, sl, f, m, i) ==
    IF i > sl.len THEN [h |-> h, v |-> m]
    ELSE LET ad == Add(h, m, MapFn(f, h[sl.a][i]))
         IN  MapFrom(ad.h, sl, f, ad.v, i + 1)

\* SetM.Map
Map(h, sl, f) == MapFrom(h, sl, f, Empty(sl.k), 1)

\* The loop of SymmetricDifference over t.
RECURSIVE SymmetricDifferenceFrom(_, _, _, _, _)
SymmetricDifferenceFrom(h, sl, tl, d, i) ==
    IF i > tl.len THEN [h |-> h, v |-> d]
    ELSE IF HasElement(h, sl, h[tl.a][i])
    THEN LET rm == Remove(h, d, h[tl.a][i])
         IN  SymmetricDifferenceFrom(rm.h, sl, tl, rm.v, i + 1)
    ELSE LET ap == AppendOne(h, d, h[tl.a][i])
         IN  SymmetricDifferenceFrom(ap.h, sl, tl, ap.v, i + 1)

\* SetM.SymmetricDifference
SymmetricDifference(h, sl, tl) ==
    LET c == Copy(h, sl)
    IN  SymmetricDifferenceFrom(c.h, sl, tl, c.v, 1)

\* SetM.Union
Union(h, sl, tl) ==
    LET c == Copy(h, sl)
    IN  UnionR(c.h, c.v, tl)

\* The outer loop of UnionV over ts.
RECURSIVE UnionVFrom(_, _, _, _)
UnionVFrom(h, u, ts, j) ==
    IF j > Len(ts) THEN [h |-> h, v |-> u]
    ELSE LET un == UnionR(h, u, ts[j])
         IN  UnionVFrom(un.h, un.v, ts, j + 1)

\* SetM.UnionV
UnionV(h, sl, ts) ==
    LET c == Copy(h, sl)
    IN  UnionVFrom(c.h, c.v, ts, 1)

(***************************************************************************)
(* Values written in the program text (arguments, literals) and read back. *)
(* A term is an intEle, or a set literal [k, e] of terms.                  *)
(***************************************************************************)
SetLit(k, es) == [k |-> k, e |-> es]

\* Evaluating a term: a set literal allocates its array.
RECURSIVE Build(_, _), BuildSeq(_, _, _, _)
Build(h, term) ==
    IF term.k \in {"Set", "SetM"}
    THEN LET bs == BuildSeq(h, term.e, <<>>, 1)
         IN  Literal(bs.h, term.k, bs.v)
    ELSE [h |-> h, v |-> term]

\* The elements of a literal, evaluated left to right.
BuildSeq(h, terms, acc, i) ==
    IF i > Len(terms) THEN [h |-> h, v |-> acc]
    ELSE LET b == Build(h, terms[i])
         IN  BuildSeq(b.h, terms, Append(acc, b.v), i + 1)

\* What a cell holds, with every slice header read through the heap.
RECURSIVE View(_, _)
View(h, c) ==
    IF IsSlice(c)
    THEN SetLit(c.k, [i \in 1..c.len |-> View(h, h[c.a][i])])
    ELSE IF c.k = "pair"
    THEN OrderedPair(View(h, c.a), View(h, c.b))
    ELSE c

\* The arrays a cell keeps alive.
RECURSIVE ReachCell(_, _)
ReachCell(h, c) ==
    IF IsSlice(c)
    THEN IF c.a = 0 THEN {}
         ELSE {c.a} \cup UNION {ReachCell(h, h[c.a][i]) : i \in 1..Len(h[c.a])}
    ELSE IF c.k = "pair"
    THEN ReachCell(h, c.a) \cup ReachCell(h, c.b)
    ELSE {}

\* A cell with its array indices renamed by f.
RECURSIVE Reloc(_, _)
Reloc(f, c) ==
    IF IsSlice(c) THEN (IF c.a = 0 THEN c ELSE [c EXCEPT !.a = f[c.a]])
    ELSE IF c.k = "pair" THEN OrderedPair(Reloc(f, c.a), Reloc(f, c.b))
    ELSE c

\* Garbage collection: the arrays the roots keep alive, renumbered from 1
\* in their old order; v is the roots, renamed.
Gc(h, roots) ==
    LET live == UNION {ReachCell(h, roots[i]) : i \in 1..Len(roots)}
        f == [a \in live |-> Cardinality({b \in live : b <= a})]
        old == [n \in 1..Cardinality(live) |-> CHOOSE a \in live : f[a] = n]
    IN  [h |-> [n \in 1..Cardinality(live) |->
                    [i \in 1..Len(h[old[n]]) |-> Reloc(f, h[old[n]][i])]],
         v |-> [i \in 1..Len(roots) |-> Reloc(f, roots[i])]]

\* No two positions of sl hold elements that are Equal.
NoDup(h, sl) ==
    \A i, j \in 1..sl.len : i # j => ~Equal(h, h[sl.a][i], h[sl.a][j])

(***************************************************************************)
(* The arguments the operations are called with.                           *)
(***************************************************************************)
Ints == {IntEle(n) : n \in 1..MaxInt}

\* Sequences over S of length at most n.
SeqsUpTo(S, n) == UNION {[1..m -> S] : m \in 0..n}

\* Element arguments: the intEle values.
ElemTerms == Ints

\* Set arguments: literals of at most MaxLits elements, no element twice.
SetTerms ==
    {SetLit("SetM", es) :
        es \in {q \in SeqsUpTo(ElemTerms, MaxLits) :
                    \A i, j \in 1..Len(q) : i # j => q[i] # q[j]}}

(***************************************************************************)
(* Spec: one set variable s, changed only through its mutating methods.    *)
(* SpecAlias: the same, and t may be assigned from s (t := s copies the    *)
(* header, not the array); the methods are still called on s only.         *)
(***************************************************************************)
\* var s SetM, or s := NewSetM(es...)
Init ==
    \E es \in SeqsUpTo(ElemTerms, MaxArgs) :
        LET b == BuildSeq(<<>>, es, <<>>, 1)
            n == NewSetM(b.h, b.v)
            g == Gc(n.h, <<n.v>>)
        IN  /\ s = g.v[1]
            /\ heap = g.h
            /\ t = Empty("SetM")
            /\ r = Empty("SetM")
            /\ last = [op |-> "none"]
            /\ popped = <<>>
            /\ orig = <<>>

\* The state after a method of s returned res: s holds the new header.
Mutated(res) ==
    LET g == Gc(res.h, <<res.v, t>>)
    IN  /\ s' = g.v[1]
        /\ t' = g.v[2]
        /\ heap' = g.h
        /\ UNCHANGED <<r, last, popped, orig>>

\* s.AddElement(e)
AddElementOf(e) == Mutated(AddElement(heap, s, e))

\* s.Add(e)
AddOf(e) == Mutated(Add(heap, s, e))

\* s.AddV(es...)
AddVOf(es) == Mutated(AddV(heap, s, es))

DoAddElement == \E e \in ElemTerms : AddElementOf(e)

DoAdd == \E e \in ElemTerms : AddOf(e)

DoAddV == \E es \in SeqsUpTo(ElemTerms, MaxArgs) : AddVOf(es)

DoRemoveElement == \E e \in ElemTerms : Mutated(RemoveElement(heap, s, e))

DoRemove == \E e \in ElemTerms : Mutated(Remove(heap, s, e))

DoRemoveIf == \E P \in SUBSET (1..MaxInt) : Mutated(RemoveIf(heap, s, P))

\* s.Pop(), whatever index rand.Intn draws
DoPop ==
    \E i \in 1..(IF s.len = 0 THEN 1 ELSE s.len) : Mutated(Pop(heap, s, i))

DoClear == Mutated(Clear(heap, s))

\* s.UnionR(c) with c a literal
DoUnionR ==
    \E c \in SetTerms :
        LET b == Build(heap, c)
        IN  Mutated(UnionR(b.h, s, b.v))

\* s.UnionR(s)
DoUnionRSelf == Mutated(UnionR(heap, s, s))

\* s.DifferenceR(c) with c a literal
DoDifferenceR ==
    \E c \in SetTerms :
        LET b == Build(heap, c)
        IN  Mutated(DifferenceR(b.h, s, b.v))

\* s.DifferenceR(s): the argument shares the receiver's array
DoDifferenceRSelf == Mutated(DifferenceR(heap, s, s))

Next ==
    \/ DoAddElement
    \/ DoAdd
    \/ DoAddV
    \/ DoRemoveElement
    \/ DoRemove
    \/ DoRemoveIf
    \/ DoPop
    \/ DoClear
    \/ DoUnionR
    \/ DoUnionRSelf
    \/ DoDifferenceR
    \/ DoDifferenceRSelf

Spec == Init /\ [][Next]_vars

\* s built by AddElement calls from the nil set.
RECURSIVE AddElements(_, _, _, _)
AddElements(h, p, es, i) ==
    IF i > Len(es) THEN [h |-> h, v |-> p]
    ELSE LET ad == AddElement(h, p, es[i])
         IN  AddElements(ad.h, ad.v, es, i + 1)

\* var s Set; s.AddElement(e) for each e of es; t := s
InitAlias ==
    \E es \in SeqsUpTo(ElemTerms, MaxInt) :
        LET n == AddElements(<<>>, Empty("SetM"), es, 1)
            g == Gc(n.h, <<n.v>>)
        IN  /\ s = g.v[1]
            /\ t = g.v[1]
            /\ heap = g.h
            /\ r = Empty("SetM")
            /\ last = [op |-> "none"]
            /\ popped = <<>>
            /\ orig = <<>>

SpecAlias == InitAlias /\ [][Next]_vars

(***************************************************************************)
(* SpecPop: a duplicate-free set, then Pop calls only.                     *)
(***************************************************************************)
\* Elements of the sets popped from: the intEle values and two sets.
PopTerms ==
    Ints \cup {SetLit("SetM", <<IntEle(1)>>), SetLit("SetM", <<>>)}

\* s built by NewSetM (no spare capacity) or by AddElement calls (spare
\* capacity), from arguments no two of which are equal.
InitPop ==
    \E es \in {q \in SeqsUpTo(PopTerms, MaxPop) :
                  \A i, j \in 1..Len(q) : i # j => q[i] # q[j]} :
    \E byAdd \in BOOLEAN :
        LET b == BuildSeq(<<>>, es, <<>>, 1)
            n == IF byAdd THEN AddElements(b.h, Empty("SetM"), b.v, 1)
                 ELSE NewSetM(b.h, b.v)
            g == Gc(n.h, <<n.v>>)
        IN  /\ s = g.v[1]
            /\ heap = g.h
            /\ orig = View(g.h, g.v[1]).e
            /\ popped = <<>>
            /\ t = Empty("SetM")
            /\ r = Empty("SetM")
            /\ last = [op |-> "none"]

\* e, ok := s.Pop(), whatever index rand.Intn draws; the calls go on two
\* past the one that empties the set.
PopCall ==
    /\ Len(popped) < Len(orig) + 2
    /\ \E i \in 1..(IF s.len = 0 THEN 1 ELSE s.len) :
          LET res == Pop(heap, s, i)
              g == Gc(res.h, <<res.v, res.e>> \o [j \in 1..Len(popped) |-> popped[j].e])
          IN  /\ s' = g.v[1]
              /\ heap' = g.h
              /\ popped' = [j \in 1..(Len(popped) + 1) |->
                              [e |-> IF j > Len(popped) THEN g.v[2] ELSE g.v[j + 2],
                               ok |-> IF j > Len(popped) THEN res.ok
                                      ELSE popped[j].ok]]
              /\ UNCHANGED <<t, r, last, orig>>

NextPop == PopCall

SpecPop == InitPop /\ [][NextPop]_vars

(***************************************************************************)
(* SpecAlg: the methods that compute a value from their operands.  Init    *)
(* draws the operands s and t (t = Nil: none); an action applies methods   *)
(* to them and keeps what they returned in last.                           *)
(***************************************************************************)
\* The mathematical value of a written value: a set of a type is its type
\* and the set of its members' values.
RECURSIVE Abs(_)
Abs(w) ==
    IF w.k \in {"Set", "SetM"}
    THEN [k |-> w.k, v |-> 0, m |-> {Abs(w.e[i]) : i \in 1..Len(w.e)}]
    ELSE IF w.k = "int" THEN [k |-> "int", v |-> w.v, m |-> {}]
    ELSE [k |-> w.k, v |-> 0, m |-> {}]

\* A written set names no member twice, at any depth.
RECURSIVE DupFree(_)
DupFree(w) ==
    w.k \in {"Set", "SetM"} =>
        /\ \A i, j \in 1..Len(w.e) : i # j => Abs(w.e[i]) # Abs(w.e[j])
        /\ \A i \in 1..Len(w.e) : DupFree(w.e[i])

\* The elements of the operands: intEle values, and one set in two orders.
AlgElems ==
    {IntEle(1), IntEle(2), IntEle(3),
     SetLit("SetM", <<IntEle(1), IntEle(2)>>),
     SetLit("SetM", <<IntEle(2), IntEle(1)>>)}

\* Duplicate-free sets of type k of at most n elements.
AlgSets(k, n) ==
    {w \in {SetLit(k, es) : es \in SeqsUpTo(AlgElems, n)} : DupFree(w)}

\* The sets {1, ..., n} PowerSet is applied to.
RangeSets ==
    {SetLit(k, [i \in 1..n |-> IntEle(i)]) :
        k \in {"Set", "SetM"}, n \in (MaxAlg + 1)..MaxPow}

\* Nested sets Flatten is applied to, besides the sets of AlgSets.
NestSets ==
    {SetLit("SetM", <<SetLit("SetM", <<>>)>>),
     SetLit("SetM", <<IntEle(1),
                      SetLit("SetM", <<IntEle(2),
                                       SetLit("SetM", <<IntEle(3)>>)>>)>>),
     SetLit("SetM", <<SetLit("SetM", <<IntEle(1)>>),
                      SetLit("SetM", <<IntEle(2), IntEle(1)>>),
                      IntEle(3)>>)}

OtherType(k) == IF k = "Set" THEN "SetM" ELSE "Set"

\* The second operands drawn for a first operand w of AlgSets.
AlgOperands(w) ==
    AlgSets(w.k, MaxLits)
    \cup {Nil, IntEle(1), SetLit(OtherType(w.k), w.e), SetLit(OtherType(w.k), <<>>)}

InitAlg ==
    \E w \in AlgSets("SetM", MaxAlg) \cup AlgSets("Set", MaxAlg)
             \cup RangeSets \cup NestSets :
    \E x \in (IF w \in RangeSets \cup NestSets THEN {Nil} ELSE AlgOperands(w)) :
        LET b == Build(<<>>, w)
            c == Build(b.h, x)
        IN  /\ heap = c.h
            /\ s = b.v
            /\ t = c.v
            /\ r = Empty("SetM")
            /\ last = [op |-> "none"]
            /\ popped = <<>>
            /\ orig = <<w, x>>

\* The state after the methods named by name returned the cells res and
\* the outcomes out, leaving the heap h.
Returned(h, name, res, out) ==
    LET g == Gc(h, <<s, t>> \o res)
    IN  /\ heap' = g.h
        /\ s' = g.v[1]
        /\ t' = g.v[2]
        /\ last' = [op |-> name,
                    res |-> SubSeq(g.v, 3, Len(res) + 2),
                    out |-> out]
        /\ UNCHANGED <<r, popped, orig>>

\* s.PowerSet()
DoPowerSet ==
    /\ last.op = "none" /\ t = Nil
    /\ LET ps == PowerSet(heap, s)
       IN  Returned(ps.h, "PowerSet", <<ps.v>>, <<>>)

\* s.Flatten() and s.Flatten2()
DoFlatten ==
    /\ last.op = "none" /\ t = Nil /\ s.k = "SetM"
    /\ LET f1 == Flatten(heap, s)
           f2 == Flatten2(f1.h, s)
       IN  Returned(f2.h, "Flatten", <<f1.v, f2.v>>, <<f2.fault>>)

\* s.Intersect(t), s.Difference(t), s.Intersect2(t), s.Difference2(t)
DoAlgebra ==
    /\ last.op = "none" /\ s.k = "SetM" /\ t.k = "SetM"
    /\ LET i1 == Intersect(heap, s, t)
           d1 == Difference(i1.h, s, t)
           i2 == Intersect2(d1.h, s, t)
           d2 == Difference2(i2.h, s, t)
       IN  Returned(d2.h, "Algebra", <<i1.v, d1.v, i2.v, d2.v>>, <<>>)

\* What Add reports on a set whose HasElement ends as o.
AddOutcome(o) == IF o = "panic" THEN "panic" ELSE "true"

\* p := s.CartesianProduct(t), then on each pair q of p: q.Equal(q),
\* q.Equal(e) for e not a pair, p.HasElement(q), p.Add(q); and p.Equal(p).
DoCartesianProduct ==
    /\ last.op = "none" /\ s.k = "SetM" /\ t.k = "SetM"
    /\ LET p == CartesianProduct(heap, s, t)
           qs == {p.h[p.v.a][i] : i \in 1..p.v.len}
       IN  Returned(p.h, "CartesianProduct", <<p.v>>,
                    [refl |-> {Reflexive(p.h, q) : q \in qs},
                     other |-> {EqualO(p.h, q, e) : q \in qs, e \in {Nil, IntEle(1), s, p.v}},
                     has |-> {HasElementO(p.h, p.v, q) : q \in qs},
                     add |-> {AddOutcome(HasElementO(p.h, p.v, q)) : q \in qs},
                     eq |-> EqualO(p.h, p.v, p.v)])

\* s.Equal(t), Reflexive(s), Symetric(s, t), Transitive(s, t, s)
DoEqual ==
    /\ last.op = "none" /\ IsSlice(s)
    /\ Returned(heap, "Equal", <<>>,
                [eq |-> EqualO(heap, s, t),
                 refl |-> Reflexive(heap, s),
                 sym |-> IF t = Nil THEN "true" ELSE Symetric(heap, s, t),
                 trans |-> Transitive(heap, s, t, s)])

NextAlg ==
    \/ DoPowerSet
    \/ DoFlatten
    \/ DoAlgebra
    \/ DoCartesianProduct
    \/ DoEqual

SpecAlg == InitAlg /\ [][NextAlg]_vars

(***************************************************************************)
(* SpecRO: a read-only method is called on the operands s and t, and the   *)
(* set it returned, r, is then mutated.                                    *)
(***************************************************************************)
\* The intEle values 1..n in increasing order, those not in X left out.
RECURSIVE Ascending(_, _)
Ascending(X, n) ==
    IF n = 0 THEN <<>>
    ELSE IF n \in X THEN Append(Ascending(X, n - 1), IntEle(n))
    ELSE Ascending(X, n - 1)

ROSeqs == {Ascending(X, MaxRO) : X \in SUBSET (1..MaxRO)}

\* s := NewSetM(es...), or with a spare slot: s := NewSetM(es..., x) and
\* s.Remove(x); t := NewSetM(fs...)
InitRO ==
    \E es \in ROSeqs : \E fs \in ROSeqs : \E spare \in BOOLEAN :
        LET x == IntEle(MaxRO + 1)
            n == NewSetM(<<>>, IF spare THEN Append(es, x) ELSE es)
            m == IF spare THEN Remove(n.h, n.v, x) ELSE n
            o == NewSetM(m.h, fs)
            g == Gc(o.h, <<m.v, o.v>>)
        IN  /\ heap = g.h
            /\ s = g.v[1]
            /\ t = g.v[2]
            /\ r = Empty("SetM")
            /\ last = [op |-> "none", n |-> 0]
            /\ popped = <<>>
            /\ orig = <<View(g.h, g.v[1]), View(g.h, g.v[2])>>

\* r := the set a read-only method returned as res.
Called(res) ==
    /\ last.op = "none"
    /\ LET g == Gc(res.h, <<s, t, res.v>>)
       IN  /\ heap' = g.h
           /\ s' = g.v[1]
           /\ t' = g.v[2]
           /\ r' = g.v[3]
           /\ last' = [op |-> "called", n |-> 0]
           /\ UNCHANGED <<popped, orig>>

\* The variadic arguments given to UnionV, IntersectV and DifferenceV.
ROArgs == {<<>>, <<t>>, <<t, s>>}

\* The callbacks given to Filter and RemoveIf, and to Map.
ROPreds == {{}, {1}, 1..MaxRO}
ROMaps == {[n \in 1..(MaxRO + 1) |-> 1], [n \in 1..(MaxRO + 1) |-> (n % MaxRO) + 1]}

CallCopy == Called(Copy(heap, s))
CallUnion == Called(Union(heap, s, t))
CallUnionV == \E ts \in ROArgs : Called(UnionV(heap, s, ts))
CallIntersect == Called(Intersect(heap, s, t))
CallIntersect2 == Called(Intersect2(heap, s, t))
CallIntersectV == \E ts \in ROArgs : Called(IntersectV(heap, s, ts))
CallDifference == Called(Difference(heap, s, t))
CallDifference2 == Called(Difference2(heap, s, t))
CallDifferenceV == \E ts \in ROArgs : Called(DifferenceV(heap, s, ts))
CallSymmetricDifference == Called(SymmetricDifference(heap, s, t))
CallCartesianProduct == Called(CartesianProduct(heap, s, t))
CallPowerSet == Called(PowerSet(heap, s))
CallMap == \E f \in ROMaps : Called(Map(heap, s, f))
CallFilter == \E P \in ROPreds : Called(Filter(heap, s, P))

\* A mutating method on r left res.
MutatedR(res) ==
    /\ last.op = "called"
    /\ last.n < MaxMut
    /\ LET g == Gc(res.h, <<s, t, res.v>>)
       IN  /\ heap' = g.h
           /\ s' = g.v[1]
           /\ t' = g.v[2]
           /\ r' = g.v[3]
           /\ last' = [last EXCEPT !.n = @ + 1]
           /\ UNCHANGED <<popped, orig>>

\* The elements given to r.Add and r.Remove: intEle values and r's own.
ROElems == {IntEle(n) : n \in 1..(MaxRO + 1)} \cup {heap[r.a][i] : i \in 1..r.len}

MutAdd == \E e \in ROElems : MutatedR(Add(heap, r, e))
MutRemove == \E e \in ROElems : MutatedR(Remove(heap, r, e))
MutRemoveIf == \E P \in ROPreds : MutatedR(RemoveIf(heap, r, P))
MutPop == \E i \in 1..(IF r.len = 0 THEN 1 ELSE r.len) : MutatedR(Pop(heap, r, i))
MutClear == MutatedR(Clear(heap, r))

NextRO ==
    \/ CallCopy
    \/ CallUnion
    \/ CallUnionV
    \/ CallIntersect
    \/ CallIntersect2
    \/ CallIntersectV
    \/ CallDifference
    \/ CallDifference2
    \/ CallDifferenceV
    \/ CallSymmetricDifference
    \/ CallCartesianProduct
    \/ CallPowerSet
    \/ CallMap
    \/ CallFilter
    \/ MutAdd
    \/ MutRemove
    \/ MutRemoveIf
    \/ MutPop
    \/ MutClear

SpecRO == InitRO /\ [][NextRO]_vars

(***************************************************************************)
(* SpecIter: c := s.Iter() and one consumer of c.  The goroutine Iter      *)
(* starts (the producer) and the consumer are two processes; last holds    *)
(* where each of them is, t the receiver copy of s the goroutine ranges    *)
(* over, orig the values sent and popped the values received.  The channel *)
(* is unbuffered: a send completes only together with a receive.           *)
(***************************************************************************)
\* The set Iter is called on, built by NewSetM.
InitIter ==
    \E es \in SeqsUpTo(ElemTerms, MaxIter) :
        LET b == BuildSeq(<<>>, es, <<>>, 1)
            n == NewSetM(b.h, b.v)
            g == Gc(n.h, <<n.v>>)
        IN  /\ s = g.v[1]
            /\ heap = g.h
            /\ t = Empty("SetM")
            /\ r = Empty("SetM")
            /\ last = [op |-> "none"]
            /\ popped = <<>>
            /\ orig = <<>>

\* c := s.Iter(): the channel is made and the goroutine started, at the head
\* of its range loop over the receiver.  The consumer either receives until
\* it sees the channel closed (drain) or receives k values and stops.
CallIter ==
    /\ last.op = "none"
    /\ \E drain \in BOOLEAN : \E k \in 0..s.len :
          /\ drain => k = s.len
          /\ last' = [op |-> "Iter", pc |-> "range", i |-> 0, e |-> Nil,
                      closed |-> FALSE,
                      cons |-> "idle", drain |-> drain, k |-> k]
    /\ t' = s
    /\ UNCHANGED <<heap, s, r, popped, orig>>

\* for _, e := range s: the next element is read from the array.
RangeNext ==
    /\ last.op = "Iter" /\ last.pc = "range"
    /\ last.i < t.len
    /\ last' = [last EXCEPT !.pc = "send", !.e = heap[t.a][last.i + 1]]
    /\ UNCHANGED <<heap, s, t, r, popped, orig>>

\* The range loop is over.
RangeEnd ==
    /\ last.op = "Iter" /\ last.pc = "range"
    /\ last.i >= t.len
    /\ last' = [last EXCEPT !.pc = "close"]
    /\ UNCHANGED <<heap, s, t, r, popped, orig>>

\* The consumer starts a receive, <-c.
Receive ==
    /\ last.op = "Iter" /\ last.cons = "idle"
    /\ last.drain \/ Len(popped) < last.k
    /\ last' = [last EXCEPT !.cons = "recv"]
    /\ UNCHANGED <<heap, s, t, r, popped, orig>>

\* The consumer has received its k values and receives no more.
StopReceiving ==
    /\ last.op = "Iter" /\ last.cons = "idle"
    /\ ~last.drain /\ Len(popped) >= last.k
    /\ last' = [last EXCEPT !.cons = "stopped"]
    /\ UNCHANGED <<heap, s, t, r, popped, orig>>

\* A send on a channel with no buffer, whatever the receiver does.
RendezvousNoReceiver(l) == l.pc = "send"

\* c <- e on the unbuffered channel goes through when a receiver waits.
Rendezvous(l) == l.pc = "send" /\ l.cons = "recv"

\* c <- e and <-c complete together: the value passes from the producer to
\* the consumer, and the producer goes on to the next iteration.
Handoff ==
    /\ last.op = "Iter" /\ Rendezvous(last)
    /\ orig' = Append(orig, last.e)
    /\ popped' = Append(popped, last.e)
    /\ last' = [last EXCEPT !.pc = "range", !.i = @ + 1, !.e = Nil,
                            !.cons = "idle"]
    /\ UNCHANGED <<heap, s, t, r>>

\* close(c), and the goroutine returns.
Close ==
    /\ last.op = "Iter" /\ last.pc = "close"
    /\ last' = [last EXCEPT !.pc = "done", !.closed = TRUE]
    /\ UNCHANGED <<heap, s, t, r, popped, orig>>

\* A receive on the closed channel returns at once, with ok false.
ReceiveClosed ==
    /\ last.op = "Iter" /\ last.cons = "recv" /\ last.closed
    /\ last' = [last EXCEPT !.cons = "closed"]
    /\ UNCHANGED <<heap, s, t, r, popped, orig>>

Producer == RangeNext \/ RangeEnd \/ Handoff \/ Close

Consumer == Receive \/ StopReceiving \/ Handoff \/ ReceiveClosed

NextIter ==
    \/ CallIter
    \/ RangeNext
    \/ RangeEnd
    \/ Receive
    \/ StopReceiving
    \/ Handoff
    \/ Close
    \/ ReceiveClosed

SpecIter == InitIter /\ [][NextIter]_vars

\* The Go scheduler runs a goroutine that can take a step: neither the
\* producer nor the consumer stays runnable forever without running.
SpecIterFair == SpecIter /\ WF_vars(Producer) /\ WF_vars(Consumer)

(***************************************************************************)
(* SpecShared: t := s copies the header of s, so t and s share one array;  *)
(* then only the removing methods are called, on s (the receiver the code  *)
(* calls r).  orig holds the members t had when it was assigned.           *)
(***************************************************************************)
\* s := NewSetM(es...); t := s
InitShared ==
    \E es \in SeqsUpTo(ElemTerms, MaxInt) :
        LET b == BuildSeq(<<>>, es, <<>>, 1)
            n == NewSetM(b.h, b.v)
            g == Gc(n.h, <<n.v>>)
        IN  /\ s = g.v[1]
            /\ t = g.v[1]
            /\ heap = g.h
            /\ r = Empty("SetM")
            /\ last = [op |-> "none"]
            /\ popped = <<>>
            /\ orig = View(g.h, g.v[1]).e

NextShared ==
    \/ DoRemove
    \/ DoRemoveIf
    \/ DoDifferenceR
    \/ DoPop
    \/ DoClear

SpecShared == InitShared /\ [][NextShared]_vars

(***************************************************************************)
(* Claims.                                                                 *)
(***************************************************************************)
\* The members of sl, as written values.
Members(h, sl) == {View(h, h[sl.a][i]) : i \in 1..sl.len}

\* What an add of the elements es, which left res, has done to s.
C1_AddPost(res, es) ==
    /\ res.v.len <= s.len + Len(es)
    /\ \A i \in 1..Len(es) : HasElement(res.h, res.v, es[i])
    /\ Members(res.h, res.v) = Members(heap, s) \cup {es[i] : i \in 1..Len(es)}
    /\ (\A i \in 1..Len(es) : HasElement(heap, s, es[i])) => res.v.len = s.len
    /\ NoDup(res.h, res.v)

\* C1: a set variable that starts empty or from NewSetM and is changed only
\* through its mutating methods never holds two Equal elements; an add of
\* e, in whatever state these methods have left the set, makes e a member
\* and raises the cardinality by at most 1, and by 0 when e was a member
\* already (so adding e twice adds it once).
C1_NoDuplicates ==
    /\ NoDup(heap, s)
    /\ Cardinality(Members(heap, s)) = s.len
    /\ \A e \in ElemTerms :
          /\ C1_AddPost(Add(heap, s, e), <<e>>)
          /\ C1_AddPost(AddElement(heap, s, e), <<e>>)
          /\ LET once == Add(heap, s, e)
             IN  Add(once.h, once.v, e).v.len = once.v.len
    /\ \A es \in SeqsUpTo(ElemTerms, MaxArgs) :
          C1_AddPost(AddV(heap, s, es), es)

\* C1 witness: every intEle is a member of s, once each, in an array that
\* AddElement's appends grew (it has a slot to spare).
C1_Witness ==
    /\ s.len = MaxInt
    /\ Members(heap, s) = Ints
    /\ NoDup(heap, s)
    /\ Len(heap[s.a]) > s.len

\* 2^n
RECURSIVE Pow2(_)
Pow2(n) == IF n = 0 THEN 1 ELSE 2 * Pow2(n - 1)

\* C2: for a duplicate-free set s of cardinality n, s.PowerSet() has 2^n
\* elements, pairwise not Equal, each a duplicate-free subset of s of s's
\* type, and the empty set and s itself are among them.
C2_PowerSetAllSubsets ==
    last.op = "PowerSet" =>
        LET ps == last.res[1]
        IN  /\ ps.len = Pow2(s.len)
            /\ NoDup(heap, ps)
            /\ \A i \in 1..ps.len :
                  LET x == heap[ps.a][i]
                  IN  /\ x.k = s.k
                      /\ NoDup(heap, x)
                      /\ \A j \in 1..x.len : HasElement(heap, s, heap[x.a][j])
            /\ HasElement(heap, ps, Empty(s.k))
            /\ HasElement(heap, ps, s)

\* C3: for a SetM s, nested or not, s.Flatten() and s.Flatten2() both
\* return, the results are Equal, and neither holds a SetM.
C3_FlattenAgree ==
    last.op = "Flatten" =>
        /\ ~last.out[1]
        /\ Equal(heap, last.res[1], last.res[2])
        /\ \A n \in 1..2 : \A i \in 1..last.res[n].len :
              heap[last.res[n].a][i].k # "SetM"

\* C4: an add on s (AddElement, Add, AddV) leaves the element sequence
\* seen through t, which shares or once shared s's array, as it was.
C4_AddKeepsAlias ==
    [][((\E e \in ElemTerms : AddOf(e) \/ AddElementOf(e))
        \/ (\E es \in SeqsUpTo(ElemTerms, MaxArgs) : AddVOf(es)))
       => View(heap', t') = View(heap, t)]_vars

\* C5: a call of Copy, Union, UnionV, Intersect, Intersect2, IntersectV,
\* Difference, Difference2, DifferenceV, SymmetricDifference,
\* CartesianProduct, PowerSet, Map or Filter leaves the element sequences of
\* s and t as they were, and so does every Add, Remove, RemoveIf, Pop and
\* Clear applied afterwards to the set returned, which shares no array with
\* s or t.
C5_OperandsUnchanged ==
    /\ View(heap, s) = orig[1]
    /\ View(heap, t) = orig[2]
    /\ r.len > 0 => r.a \notin {s.a, t.a}

\* C5 witness: s has a spare slot, and the set returned, which had all of
\* s's elements, was mutated MaxMut times and now differs from s.
C5_Witness ==
    /\ last.op = "called"
    /\ last.n = MaxMut
    /\ s.len = MaxRO
    /\ Len(heap[s.a]) > s.len
    /\ t.len > 0
    /\ r.len >= s.len - MaxMut
    /\ View(heap, r).e # orig[1].e

\* C6: for duplicate-free s and t, every element of s is a member of
\* exactly one of s.Intersect(t) and s.Difference(t), neither holds an
\* element that is not in s, and their cardinalities add up to that of s.
C6_Partition ==
    last.op = "Algebra" =>
        LET in == last.res[1]
            df == last.res[2]
        IN  /\ \A i \in 1..s.len :
                  HasElement(heap, in, heap[s.a][i])
                      # HasElement(heap, df, heap[s.a][i])
            /\ \A i \in 1..in.len : HasElement(heap, s, heap[in.a][i])
            /\ \A i \in 1..df.len : HasElement(heap, s, heap[df.a][i])
            /\ in.len + df.len = s.len
            /\ Abs(View(heap, in)).m = Abs(orig[1]).m \cap Abs(orig[2]).m
            /\ Abs(View(heap, df)).m = Abs(orig[1]).m \ Abs(orig[2]).m

\* C6 witness: s has elements on both sides, one of them a set that t holds
\* in another order, and t has an element that s has not.
C6_Witness ==
    /\ last.op = "Algebra"
    /\ last.res[1].len > 0
    /\ last.res[2].len > 0
    /\ \E i \in 1..last.res[1].len : \A j \in 1..t.len :
          View(heap, heap[last.res[1].a][i]) # View(heap, heap[t.a][j])
    /\ \E j \in 1..t.len : ~HasElement(heap, s, heap[t.a][j])

\* C7: for duplicate-free s and t, s.Difference2(t) has the members of
\* s.Difference(t) and s.Intersect2(t) those of s.Intersect(t): each pair
\* is Equal, whatever the order of the elements.
C7_VariantsAgree ==
    last.op = "Algebra" =>
        /\ Equal(heap, last.res[3], last.res[1])
        /\ Equal(heap, last.res[1], last.res[3])
        /\ Equal(heap, last.res[4], last.res[2])
        /\ Equal(heap, last.res[2], last.res[4])
        /\ Abs(View(heap, last.res[3])) = Abs(View(heap, last.res[1]))
        /\ Abs(View(heap, last.res[4])) = Abs(View(heap, last.res[2]))

\* C7 witness: the variants return the same members in different orders,
\* for the intersection and for the difference.
C7_Witness ==
    /\ last.op = "Algebra"
    /\ \/ View(heap, last.res[3]) # View(heap, last.res[1])
       \/ View(heap, last.res[4]) # View(heap, last.res[2])
    /\ last.res[1].len > 0
    /\ last.res[2].len > 0

\* C8: with n the cardinality at the start, each of the first n Pop calls
\* returns (e, true) with e an element of the original set, the elements
\* returned are pairwise not Equal, the cardinality drops by 1 per call,
\* and every later call returns (nil, false) and leaves the set empty.
C8_PopExhaustion ==
    LET n == Len(orig)
        k == Len(popped)
    IN  /\ \A i \in 1..k :
              IF i <= n
              THEN /\ popped[i].ok
                   /\ \E j \in 1..n : View(heap, popped[i].e) = orig[j]
              ELSE ~popped[i].ok /\ popped[i].e = Nil
        /\ \A i, j \in 1..k :
              (i < j /\ j <= n) => ~Equal(heap, popped[i].e, popped[j].e)
        /\ s.len = (IF k <= n THEN n - k ELSE 0)

\* C8 witness: a set of MaxPop elements popped empty, and two calls more.
C8_Witness ==
    /\ Len(orig) = MaxPop
    /\ Len(popped) = MaxPop + 2
    /\ s.len = 0

\* C9: on every pair q of s.CartesianProduct(t), q.Equal(q) is true,
\* q.Equal(e) is a boolean (false when e is not a pair), and HasElement,
\* Add and Equal on the product complete.
C9_PairsLawful ==
    last.op = "CartesianProduct" =>
        /\ last.out.refl \subseteq {"true"}
        /\ last.out.other \subseteq {"false"}
        /\ last.out.has \subseteq {"true"}
        /\ last.out.add \subseteq {"true"}
        /\ last.out.eq = "true"

\* C10: for duplicate-free sets, s.Equal(e) is true exactly when e is a set
\* of the type of s with the cardinality and the members of s, in any
\* order, and false for every other e, nil and non-sets included; Equal is
\* reflexive, symmetric and transitive on them.
C10_EqualIsMembership ==
    last.op = "Equal" =>
        /\ last.out.eq = (IF Abs(orig[2]) = Abs(orig[1]) THEN "true" ELSE "false")
        /\ last.out.eq = "true" <=>
              /\ IsSlice(t) /\ t.k = s.k /\ t.len = s.len
              /\ \A i \in 1..s.len : HasElement(heap, t, heap[s.a][i])
              /\ \A i \in 1..t.len : HasElement(heap, s, heap[t.a][i])
        /\ last.out.refl = "true"
        /\ last.out.sym = "true"
        /\ last.out.trans = "true"

\* C10 witness: two sets written in different orders, one of their elements
\* a set itself written in two orders, found Equal.
C10_Witness ==
    /\ last.op = "Equal"
    /\ last.out.eq = "true"
    /\ s.len = MaxLits
    /\ \A i \in 1..s.len : View(heap, heap[s.a][i]) # View(heap, heap[t.a][i])
    /\ \E i \in 1..s.len : \A j \in 1..t.len :
          View(heap, heap[s.a][i]) # View(heap, heap[t.a][j])

\* What holds of every state of an Iter: the values received are the values
\* sent, which are the elements of s in the order of the range loop, each
\* once; the channel is closed, and the producer has returned, only after
\* all of them were received; the consumer never receives more than it asked.
IterSafe ==
    last.op = "Iter" =>
        /\ popped = orig
        /\ popped = SubSeq(Elems(heap, t), 1, Len(popped))
        /\ NoDup(heap, t)
        /\ t = s
        /\ last.closed <=> last.pc = "done"
        /\ last.pc \in {"close", "done"} => Len(popped) = s.len
        /\ last.cons = "closed" => last.closed /\ popped = Elems(heap, s)
        /\ ~last.drain => Len(popped) <= last.k

\* C11: for c := s.Iter() on a set that is not mutated meanwhile, the
\* producer goroutine terminates if and only if the consumer receives all
\* len(s) elements.  A consumer that receives until the channel is closed
\* gets every element of s exactly once, in the order sent, and then sees
\* the close; a consumer that stops after k < len(s) elements leaves the
\* producer blocked on its send forever, and the channel is never closed.
C11_IterHandoff ==
    /\ []IterSafe
    /\ (last.op = "Iter" /\ Len(popped) = s.len)
          ~> (last.op = "Iter" /\ last.pc = "done")
    /\ (last.op = "Iter" /\ last.drain)
          ~> (/\ last.op = "Iter" /\ last.cons = "closed"
              /\ popped = Elems(heap, s))
    /\ (last.op = "Iter" /\ ~last.drain /\ last.k < s.len)
          ~> [](/\ last.op = "Iter"
                /\ last.pc = "send" /\ ~last.closed
                /\ last.cons = "stopped" /\ Len(popped) = last.k)
    /\ []((last.op = "Iter" /\ ~last.drain /\ last.k < s.len)
            => [](last.op = "Iter" /\ last.pc # "done" /\ ~last.closed))

\* A consumer that received until the close got the two or more elements
\* of s and saw the channel closed.
C11_Witness ==
    /\ last.op = "Iter" /\ last.drain
    /\ last.cons = "closed" /\ last.pc = "done"
    /\ s.len >= 2 /\ popped = Elems(heap, s)

\* C12: in-place removal does not corrupt an aliased set.  When t was
\* assigned from the receiver by value and so shares its array, then after
\* any sequence of Remove, RemoveIf, DifferenceR, Pop and Clear on the
\* receiver t has exactly the members it had (in any order) and no two
\* Equal elements.
C12_AliasKeepsMembers ==
    /\ Members(heap, t) = {orig[i] : i \in 1..Len(orig)}
    /\ NoDup(heap, t)

=============================================================================
